---- MODULE Spec2Model ----
(***************************************************************************)
(* The art-auction marketplace (src/app.py over src/db.py): the SQLite     *)
(* store with its four tables, the Flask routes that mutate it, and the    *)
(* purchase ledger, whose statements run one by one on a connection of     *)
(* their own so that concurrent requests interleave as they do in the      *)
(* program.                                                                *)
(***************************************************************************)
EXTENDS Integers, Sequences, FiniteSets, TLC

(***************************************************************************)
(* Bounds of the model.                                                    *)
(***************************************************************************)
NumClients == 2
MaxUsers == 3
MaxArtworks == 1
MaxTx == 2
MaxSettings == 1
MaxTicks == 1
TickMinutes == 8
MaxAnswers == 2
\* how far past MAX_DESCRIPTION_LEN the stored settings strings go
MaxPad == 1
\* the settings rows ever inserted when the settings routes are explored on their own
MaxSaves == 3

(***************************************************************************)
(* Program constants.                                                      *)
(***************************************************************************)
max_age_minutes == 7
DefaultBalance == 1000
AdminBalance == 999999
\* preview_content = resp.text[:10000]
PreviewCap == 10000
ImportDefaultPrice == 100
MAX_DESCRIPTION_LEN == 2000

Clients == 1..NumClients
Names == {"admin", "bob", "eve"}
Passwords == {"pw1", "pw2"}
\* the passwords new users register with
NewPasswords == {"pw2"}
\* what int(price) yields for the price fields the forms submit
Prices == {-1500, 500, 1500}
\* the lengths of the description field the create form submits
DescriptionLens == {0, 2001}
\* the lengths of the colors field the settings form submits
ColorsLens == {0, 2000}
\* the is_private checkbox of the create and edit forms
PrivateFlags == {0}

VARIABLES
    users,        \* table users: id -> [username, password, balance, created_at]
    artworks,     \* table artworks: id -> [price, owner_id, is_private, signature, created_at]
    transactions, \* table transactions: id -> [buyer_id, seller_id, artwork_id, amount, created_at]
    artwork_settings, \* table artwork_settings: id -> [artwork_id, settings_data, created_at]
    seq,          \* sqlite_sequence: the last AUTOINCREMENT id of each table
    now,          \* the clock behind datetime('now'), in minutes
    session,      \* the Flask session cookie of each client
    pc,           \* where each client's request in flight stands
    loc,          \* the local variables of the request in flight
    ret,          \* what the db function of the request returned
    writer,       \* the client whose connection holds the write lock, or 0
    pending,      \* the uncommitted tables as the writer's connection sees them
    upgraded      \* history: the legacy logins that succeeded, [user_id, username, password]

vars == <<users, artworks, transactions, artwork_settings, seq, now, session, pc, loc, ret, writer, pending, upgraded>>

(***************************************************************************)
(* Credentials.  hashlib.md5(p).hexdigest() is 32 hex digits and holds no  *)
(* ':'; werkzeug's generate_password_hash(p) is "method:...$salt$digest"   *)
(* and always holds one.  A hash is kept as the scheme and the password it *)
(* was made of, so that two hashes verify the same password exactly when   *)
(* they were made of it.                                                   *)
(***************************************************************************)
md5(password) == [scheme |-> "md5", of |-> password]

generate_password_hash(password) == [scheme |-> "pbkdf2", of |-> password]

check_password_hash(stored, password) ==
    stored.scheme = "pbkdf2" /\ stored.of = password

\* the test  stored and ":" in stored  of authenticate_user
HasSchemeMarker(stored) == stored.scheme # "md5"

(***************************************************************************)
(* The store.  A table is a function from the ids of its rows to the rows; *)
(* created_at is {} for NULL and {t} for a time t.                         *)
(***************************************************************************)
NULL == {}

Committed ==
    [users |-> users, artworks |-> artworks, transactions |-> transactions,
     artwork_settings |-> artwork_settings, seq |-> seq]

NoPending == [users |-> <<>>]

NoSession == [username |-> "", user_id |-> 0]

NoRet == [op |-> "none"]

NoLoc == [op |-> "none"]

\* datetime('now') as stored in a created_at column
datetime_now == {now}

\* the WHERE clause  created_at < datetime('now', '-N minutes'): NULL never matches
Expired(row) == \E t \in row.created_at : t < now - max_age_minutes

user_exists(username) == \E u \in DOMAIN users : users[u].username = username

(***************************************************************************)
(* The four statements of purchase_artwork, on the tables T the connection *)
(* sees.  An UPDATE whose WHERE matches no row changes nothing.            *)
(***************************************************************************)
UpdateBalance(T, user_id, delta) ==
    [T EXCEPT !.users =
        [u \in DOMAIN T.users |->
            IF u = user_id
            THEN [T.users[u] EXCEPT !.balance = @ + delta]
            ELSE T.users[u]]]

UpdateOwner(T, artwork_id, buyer_id) ==
    [T EXCEPT !.artworks =
        [a \in DOMAIN T.artworks |->
            IF a = artwork_id
            THEN [T.artworks[a] EXCEPT !.owner_id = buyer_id]
            ELSE T.artworks[a]]]

InsertTransaction(T, buyer_id, seller_id, artwork_id, price, created_at) ==
    LET id == T.seq.transactions + 1
    IN  [T EXCEPT !.transactions =
            (id :> [buyer_id |-> buyer_id, seller_id |-> seller_id,
                    artwork_id |-> artwork_id, amount |-> price,
                    created_at |-> created_at]) @@ T.transactions,
                  !.seq.transactions = id]

\* a mutant: the connection runs in autocommit mode (isolation_level=None)
AfterStatementAutocommit(committed, uncommitted) == uncommitted

\* sqlite3's implicit transaction: what the other connections see of the
\* writer's tables after a statement that is not followed by a commit
AfterStatement(committed, uncommitted) == committed

\* conn.commit() and the statements before it: the tables T become the store
Publish(T) ==
    /\ users' = T.users
    /\ artworks' = T.artworks
    /\ transactions' = T.transactions
    /\ artwork_settings' = T.artwork_settings
    /\ seq' = T.seq

InFlight(op) == {c \in Clients : loc[c].op = op}

LoggedIn(h) ==
    /\ pc[h] = "idle"
    /\ session[h] # NoSession
    /\ user_exists(session[h].username)

(***************************************************************************)
(* Init: the store after init_db() on a database that an older version of  *)
(* the application left behind: the admin row, and one user whose password *)
(* is still an md5 digest and whose created_at init_db has just backfilled.*)
(***************************************************************************)
InitStore ==
    /\ users =
         (1 :> [username |-> "admin",
                password |-> generate_password_hash("operator secret"),
                balance |-> AdminBalance, created_at |-> NULL])
         @@ (2 :> [username |-> "bob", password |-> md5("pw1"),
                   balance |-> DefaultBalance, created_at |-> {0}])
    /\ artworks = <<>>
    /\ transactions = <<>>
    /\ artwork_settings = <<>>
    /\ seq = [users |-> 2, artworks |-> 0, transactions |-> 0, artwork_settings |-> 0]
    /\ now = 0
    /\ session = [h \in Clients |-> NoSession]
    /\ pc = [h \in Clients |-> "idle"]
    /\ ret = [h \in Clients |-> NoRet]
    /\ writer = 0
    /\ pending = NoPending
    /\ upgraded = {}

Init ==
    /\ InitStore
    /\ loc = [h \in Clients |-> NoLoc]

(***************************************************************************)
(* POST /buy/<artwork_id>: purchase_artwork, statement by statement.       *)
(***************************************************************************)
BuyBegin(h, artwork_id) ==
    /\ LoggedIn(h)
    /\ seq.transactions + Cardinality(InFlight("buy")) < MaxTx
    /\ pc' = [pc EXCEPT ![h] = "buy_select_artwork"]
    /\ loc' = [loc EXCEPT ![h] =
                 [op |-> "buy", buyer_id |-> session[h].user_id,
                  artwork_id |-> artwork_id, seller_id |-> 0, price |-> 0]]
    /\ UNCHANGED <<users, artworks, transactions, artwork_settings, seq, now,
                   session, ret, writer, pending,
                   upgraded>>

\* a mutant: the test reads the row's id column where it should read owner_id
IsSelfPurchaseWrongColumn(artwork_id, seller_id, buyer_id) == artwork_id = buyer_id

\* _, seller_id, price = artwork;  if seller_id == buyer_id
IsSelfPurchase(artwork_id, seller_id, buyer_id) == seller_id = buyer_id

BuySelectArtwork(h) ==
    /\ pc[h] = "buy_select_artwork"
    /\ LET a == loc[h].artwork_id
       IN  IF a \notin DOMAIN artworks
           THEN /\ ret' = [ret EXCEPT ![h] =
                            [op |-> "buy", ok |-> FALSE, msg |-> "Artwork not found"]]
                /\ pc' = [pc EXCEPT ![h] = "done"]
                /\ loc' = loc
           ELSE IF IsSelfPurchase(a, artworks[a].owner_id, loc[h].buyer_id)
           THEN /\ ret' = [ret EXCEPT ![h] =
                            [op |-> "buy", ok |-> FALSE,
                             msg |-> "You cannot buy your own artwork"]]
                /\ pc' = [pc EXCEPT ![h] = "done"]
                /\ loc' = loc
           ELSE /\ loc' = [loc EXCEPT ![h].seller_id = artworks[a].owner_id,
                                      ![h].price = artworks[a].price]
                /\ pc' = [pc EXCEPT ![h] = "buy_select_balance"]
                /\ ret' = ret
    /\ UNCHANGED <<users, artworks, transactions, artwork_settings, seq, now,
                   session, writer, pending,
                   upgraded>>

\* a mutant: the balance is tested against zero, not against the price
InsufficientBalanceBelowZero(U, buyer_id, price) ==
    buyer_id \notin DOMAIN U \/ U[buyer_id].balance < 0

\* not buyer_balance or buyer_balance[0] < price
InsufficientBalance(U, buyer_id, price) ==
    buyer_id \notin DOMAIN U \/ U[buyer_id].balance < price

BuySelectBalance(h) ==
    /\ pc[h] = "buy_select_balance"
    /\ IF InsufficientBalance(users, loc[h].buyer_id, loc[h].price)
       THEN /\ ret' = [ret EXCEPT ![h] =
                        [op |-> "buy", ok |-> FALSE, msg |-> "Insufficient balance"]]
            /\ pc' = [pc EXCEPT ![h] = "done"]
       ELSE /\ pc' = [pc EXCEPT ![h] = "buy_update_buyer"]
            /\ ret' = ret
    /\ UNCHANGED <<users, artworks, transactions, artwork_settings, seq, now,
                   session, loc, writer, pending,
                   upgraded>>

\* one statement of the write transaction: the first takes the write lock
BuyStatement(h, at, next, T) ==
    /\ pc[h] = at
    /\ writer \in {0, h}
    /\ writer' = h
    /\ pending' = T
    /\ Publish(AfterStatement(Committed, T))
    /\ pc' = [pc EXCEPT ![h] = next]
    /\ UNCHANGED <<now, session, loc, ret,
                   upgraded>>

BuyUpdateBuyer(h) ==
    BuyStatement(h, "buy_update_buyer", "buy_update_seller",
                 UpdateBalance(Committed, loc[h].buyer_id, -loc[h].price))

BuyUpdateSeller(h) ==
    BuyStatement(h, "buy_update_seller", "buy_update_owner",
                 UpdateBalance(pending, loc[h].seller_id, loc[h].price))

BuyUpdateOwner(h) ==
    BuyStatement(h, "buy_update_owner", "buy_insert_transaction",
                 UpdateOwner(pending, loc[h].artwork_id, loc[h].buyer_id))

BuyInsertTransaction(h) ==
    BuyStatement(h, "buy_insert_transaction", "buy_commit",
                 InsertTransaction(pending, loc[h].buyer_id, loc[h].seller_id,
                                   loc[h].artwork_id, loc[h].price, datetime_now))

BuyCommit(h) ==
    /\ pc[h] = "buy_commit"
    /\ writer = h
    /\ Publish(pending)
    /\ writer' = 0
    /\ pending' = NoPending
    /\ ret' = [ret EXCEPT ![h] =
                 [op |-> "buy", ok |-> TRUE, msg |-> "Purchase successful"]]
    /\ pc' = [pc EXCEPT ![h] = "done"]
    /\ UNCHANGED <<now, session, loc,
                   upgraded>>

WritePcs ==
    {"buy_update_buyer", "buy_update_seller", "buy_update_owner",
     "buy_insert_transaction", "buy_commit"}

\* a statement raises (sqlite3.OperationalError): finally: conn.close() drops
\* the open transaction, and the exception leaves the function
BuyRaise(h) ==
    /\ pc[h] \in WritePcs
    /\ IF writer = h
       THEN writer' = 0 /\ pending' = NoPending
       ELSE UNCHANGED <<writer, pending>>
    /\ ret' = [ret EXCEPT ![h] = [op |-> "buy", ok |-> FALSE, msg |-> "raised"]]
    /\ pc' = [pc EXCEPT ![h] = "done"]
    /\ UNCHANGED <<users, artworks, transactions, artwork_settings, seq, now,
                   session, loc,
                   upgraded>>

(***************************************************************************)
(* POST /login: authenticate_user.                                         *)
(***************************************************************************)
UserIdOf(username) == CHOOSE u \in DOMAIN users : users[u].username = username

\* a mutant: the new hash is made of the stored digest, not of the password
UpgradedPasswordOfDigest(row, password) ==
    [row EXCEPT !.password = generate_password_hash(row.password.scheme)]

\* a mutant: the UPDATE also writes the balance column
UpgradedPasswordZeroBalance(row, password) ==
    [row EXCEPT !.password = generate_password_hash(password), !.balance = 0]

\* UPDATE users SET password = ? WHERE id = ?
UpgradedPassword(row, password) ==
    [row EXCEPT !.password = generate_password_hash(password)]

\* session['username'] = ...; session['user_id'] = ...
SessionOf(username, user_id) == [username |-> username, user_id |-> user_id]

\* authenticate_user's result: the user's dict, or None
LoginRet(ok, user_id, username) ==
    IF ok
    THEN [op |-> "login", ok |-> TRUE, user_id |-> user_id, username |-> username]
    ELSE [op |-> "login", ok |-> FALSE]

Login(h, username, password) ==
    /\ pc[h] = "idle"
    /\ IF ~user_exists(username)
       THEN /\ ret' = [ret EXCEPT ![h] = LoginRet(FALSE, 0, "")]
            /\ UNCHANGED <<users, upgraded>>
       ELSE LET u == UserIdOf(username)
                stored == users[u].password
            IN  IF HasSchemeMarker(stored)
                THEN /\ ret' = [ret EXCEPT ![h] =
                                 LoginRet(check_password_hash(stored, password),
                                          u, users[u].username)]
                     /\ UNCHANGED <<users, upgraded>>
                ELSE IF stored = md5(password)
                THEN /\ writer = 0
                     /\ users' = [users EXCEPT ![u] = UpgradedPassword(@, password)]
                     /\ ret' = [ret EXCEPT ![h] = LoginRet(TRUE, u, users[u].username)]
                     /\ upgraded' = upgraded \cup
                          {[user_id |-> u, username |-> username,
                            password |-> password]}
                ELSE /\ ret' = [ret EXCEPT ![h] = LoginRet(FALSE, 0, "")]
                     /\ UNCHANGED <<users, upgraded>>
    /\ pc' = [pc EXCEPT ![h] = "done"]
    /\ UNCHANGED <<artworks, transactions, artwork_settings, seq, now, session,
                   loc, writer, pending>>

(***************************************************************************)
(* POST /register: create_user.  The SELECT runs in autocommit mode; the   *)
(* INSERT takes the write lock and is committed at once.  Between the two  *)
(* another connection may insert the same username: the UNIQUE constraint  *)
(* of users.username then makes the INSERT raise sqlite3.IntegrityError,   *)
(* which create_user does not catch.                                       *)
(***************************************************************************)
\* create_user's result: (True, lastrowid), (False, None), or an exception
CreateUserRet(ok, user_id, raised) ==
    [op |-> "register", ok |-> ok, user_id |-> user_id, raised |-> raised]

\* a variant of the code: a taken username is reported as created, with the id it has
UsernameTakenRetAsCreated(username) ==
    CreateUserRet(TRUE, UserIdOf(username), FALSE)

\* if c.fetchone(): return False, None
UsernameTakenRet(username) == CreateUserRet(FALSE, 0, FALSE)

\* INSERT INTO users (username, password) VALUES (?, ?): balance takes its DEFAULT
InsertUser(U, id, username, password) ==
    (id :> [username |-> username,
            password |-> generate_password_hash(password),
            balance |-> DefaultBalance,
            created_at |-> NULL]) @@ U

RegisterSelect(h, username, password) ==
    /\ pc[h] = "idle"
    /\ IF user_exists(username)
       THEN /\ ret' = [ret EXCEPT ![h] = UsernameTakenRet(username)]
            /\ pc' = [pc EXCEPT ![h] = "done"]
            /\ UNCHANGED loc
       ELSE /\ seq.users < MaxUsers
            /\ loc' = [loc EXCEPT ![h] = [op |-> "register", username |-> username,
                                          password |-> password]]
            /\ pc' = [pc EXCEPT ![h] = "register_insert"]
            /\ UNCHANGED ret
    /\ UNCHANGED <<users, artworks, transactions, artwork_settings, seq, now,
                   session, writer, pending, upgraded>>

RegisterInsert(h) ==
    /\ pc[h] = "register_insert"
    /\ writer = 0
    /\ IF user_exists(loc[h].username)
       THEN /\ ret' = [ret EXCEPT ![h] = CreateUserRet(FALSE, 0, TRUE)]
            /\ UNCHANGED <<users, seq>>
       ELSE LET id == seq.users + 1
            IN  /\ seq.users < MaxUsers
                /\ users' = InsertUser(users, id, loc[h].username, loc[h].password)
                /\ seq' = [seq EXCEPT !.users = id]
                /\ ret' = [ret EXCEPT ![h] =
                             CreateUserRet(TRUE, id, FALSE)]
    /\ pc' = [pc EXCEPT ![h] = "done"]
    /\ UNCHANGED <<artworks, transactions, artwork_settings, now, session, loc,
                   writer, pending, upgraded>>

\* the route's answer: the request is over; login and register store the user in
\* the session
Respond(h) ==
    /\ pc[h] = "done"
    /\ session' = IF ret[h].op = "login" /\ ret[h].ok
                  THEN [session EXCEPT ![h] =
                          SessionOf(ret[h].username, ret[h].user_id)]
                  ELSE IF ret[h].op = "register" /\ ret[h].ok
                  THEN [session EXCEPT ![h] =
                          SessionOf(loc[h].username, ret[h].user_id)]
                  ELSE session
    /\ pc' = [pc EXCEPT ![h] = "idle"]
    /\ loc' = [loc EXCEPT ![h] = NoLoc]
    /\ ret' = [ret EXCEPT ![h] = NoRet]
    /\ UNCHANGED <<users, artworks, transactions, artwork_settings, seq, now,
                   writer, pending, upgraded>>

(***************************************************************************)
(* POST /create_artwork, /edit_artwork, /delete_artwork, /settings.        *)
(***************************************************************************)
Min(a, b) == IF a < b THEN a ELSE b

\* a description is kept as its length: str(description)[:MAX_DESCRIPTION_LEN]
save_artwork_description(len) ==
    IF len = 0 THEN {} ELSE {[kind |-> "text", len |-> Min(len, MAX_DESCRIPTION_LEN)]}

\* request.form['title'] and request.form['data']: neither is empty
FormTitle == {[type |-> "str", chars |-> <<"drawn">>]}

FormData == <<"[", "\"", "line", "\"", "]">>

\* INSERT INTO artworks ... ; INSERT INTO artwork_settings ... ; one commit
create_artwork_record(T, owner_id, title, data, price, is_private, signature, settings_data) ==
    LET id == T.seq.artworks + 1
        sid == T.seq.artwork_settings + 1
        A == [T EXCEPT !.artworks =
                (id :> [title |-> title, data |-> data,
                        price |-> price, owner_id |-> owner_id,
                        is_private |-> is_private, signature |-> signature,
                        created_at |-> datetime_now]) @@ T.artworks,
                       !.seq.artworks = id]
    IN  IF settings_data = {}
        THEN A
        ELSE [A EXCEPT !.artwork_settings =
                (sid :> [artwork_id |-> id,
                         settings_data |-> CHOOSE d \in settings_data : TRUE,
                         created_at |-> datetime_now]) @@ A.artwork_settings,
                       !.seq.artwork_settings = sid]

CreateArtwork(h, price, is_private, description_len) ==
    /\ LoggedIn(h)
    /\ writer = 0
    /\ seq.artworks < MaxArtworks
    /\ Publish(create_artwork_record(Committed, session[h].user_id,
                                     FormTitle, FormData, price, is_private, "",
                                     save_artwork_description(description_len)))
    /\ UNCHANGED <<now, session, pc, loc, ret, writer, pending,
                   upgraded>>

\* fetch_artwork_by_id joins users: an artwork whose owner row is gone is not found
OwnsArtwork(h, artwork_id) ==
    /\ artwork_id \in DOMAIN artworks
    /\ artworks[artwork_id].owner_id \in DOMAIN users
    /\ artworks[artwork_id].owner_id = session[h].user_id

\* a variant of the code: the UPDATE also names the owner the route has tested
update_artwork_of_owner(T, artwork_id, owner_id, title, data, price, is_private, signature) ==
    [T EXCEPT !.artworks =
        [a \in DOMAIN T.artworks |->
            IF a = artwork_id /\ T.artworks[a].owner_id = owner_id
            THEN [T.artworks[a] EXCEPT !.title = title, !.data = data,
                                       !.price = price, !.is_private = is_private,
                                       !.signature = signature]
            ELSE T.artworks[a]]]

\* UPDATE artworks SET title, data, price, is_private, signature WHERE id = ?
update_artwork(T, artwork_id, owner_id, title, data, price, is_private, signature) ==
    [T EXCEPT !.artworks =
        [a \in DOMAIN T.artworks |->
            IF a = artwork_id
            THEN [T.artworks[a] EXCEPT !.title = title, !.data = data,
                                       !.price = price, !.is_private = is_private,
                                       !.signature = signature]
            ELSE T.artworks[a]]]

\* the route up to update_artwork: fetch_artwork_by_id, the ownership test, the form
EditArtwork(h, artwork_id, price, is_private) ==
    /\ LoggedIn(h)
    /\ OwnsArtwork(h, artwork_id)
    /\ loc' = [loc EXCEPT ![h] =
                 [op |-> "edit", artwork_id |-> artwork_id, price |-> price,
                  is_private |-> is_private]]
    /\ pc' = [pc EXCEPT ![h] = "edit_update"]
    /\ UNCHANGED <<users, artworks, transactions, artwork_settings, seq, now,
                   session, ret, writer, pending, upgraded>>

\* update_artwork: the UPDATE and conn.commit(); then the redirect
EditUpdate(h) ==
    /\ pc[h] = "edit_update"
    /\ writer = 0
    /\ Publish(update_artwork(Committed, loc[h].artwork_id, session[h].user_id,
                              FormTitle, FormData, loc[h].price,
                              loc[h].is_private, ""))
    /\ pc' = [pc EXCEPT ![h] = "idle"]
    /\ loc' = [loc EXCEPT ![h] = NoLoc]
    /\ UNCHANGED <<now, session, ret, writer, pending, upgraded>>

\* a mutant: the delete cascades to the artwork's transactions
delete_artwork_cascade(T, artwork_id, owner_id) ==
    [T EXCEPT !.artworks =
        [a \in {x \in DOMAIN T.artworks :
                   ~(x = artwork_id /\ T.artworks[x].owner_id = owner_id)}
            |-> T.artworks[a]],
              !.transactions =
        [t \in {x \in DOMAIN T.transactions :
                   T.transactions[x].artwork_id # artwork_id}
            |-> T.transactions[t]]]

\* DELETE FROM artworks WHERE id = ? AND owner_id = ?
delete_artwork(T, artwork_id, owner_id) ==
    [T EXCEPT !.artworks =
        [a \in {x \in DOMAIN T.artworks :
                   ~(x = artwork_id /\ T.artworks[x].owner_id = owner_id)}
            |-> T.artworks[a]]]

DeleteArtwork(h, artwork_id) ==
    /\ LoggedIn(h)
    /\ writer = 0
    /\ Publish(delete_artwork(Committed, artwork_id, session[h].user_id))
    /\ UNCHANGED <<now, session, pc, loc, ret, writer, pending,
                   upgraded>>

\* a variant of the code: the DELETE is left out
DeleteSettingsNone(T, artwork_id) == T

\* DELETE FROM artwork_settings WHERE artwork_id = ?
DeleteSettings(T, artwork_id) ==
    [T EXCEPT !.artwork_settings =
        [x \in {y \in DOMAIN T.artwork_settings :
                   T.artwork_settings[y].artwork_id # artwork_id}
            |-> T.artwork_settings[x]]]

\* INSERT INTO artwork_settings (artwork_id, settings_data, created_at)
InsertSettings(T, artwork_id, settings_data) ==
    LET sid == T.seq.artwork_settings + 1
    IN  [T EXCEPT !.artwork_settings =
            (sid :> [artwork_id |-> artwork_id, settings_data |-> settings_data,
                     created_at |-> datetime_now]) @@ T.artwork_settings,
                  !.seq.artwork_settings = sid]

\* the length of str(bool) in JSON: true, false
JsonBoolLen(b) == IF b THEN 4 ELSE 5

\* json.dumps({"colors": colors, "animation": ..., "public": ...}) of a colors
\* field of ASCII letters, kept as its length
json_dumps_settings(colors_len, animation, public) ==
    [kind |-> "json",
     len |-> 41 + colors_len + JsonBoolLen(animation) + JsonBoolLen(public),
     animation |-> animation, public |-> public]

\* the route up to save_artwork_settings: the ownership test and the form
SaveSettings(h, artwork_id, colors_len, animation, public) ==
    /\ LoggedIn(h)
    /\ OwnsArtwork(h, artwork_id)
    /\ loc' = [loc EXCEPT ![h] =
                 [op |-> "save", artwork_id |-> artwork_id,
                  settings_data |-> json_dumps_settings(colors_len, animation, public)]]
    /\ pc' = [pc EXCEPT ![h] = "save_delete"]
    /\ UNCHANGED <<users, artworks, transactions, artwork_settings, seq, now,
                   session, ret, writer, pending, upgraded>>

\* save_artwork_settings, the DELETE: it takes the write lock, and waits for it
SaveDelete(h) ==
    /\ pc[h] = "save_delete"
    /\ writer = 0
    /\ writer' = h
    /\ pending' = DeleteSettings(Committed, loc[h].artwork_id)
    /\ Publish(AfterStatement(Committed, pending'))
    /\ pc' = [pc EXCEPT ![h] = "save_insert"]
    /\ UNCHANGED <<now, session, loc, ret, upgraded>>

\* save_artwork_settings, the INSERT and conn.commit(); then the redirect
SaveInsert(h) ==
    /\ pc[h] = "save_insert"
    /\ writer = h
    /\ Publish(InsertSettings(pending, loc[h].artwork_id, loc[h].settings_data))
    /\ writer' = 0
    /\ pending' = NoPending
    /\ pc' = [pc EXCEPT ![h] = "idle"]
    /\ loc' = [loc EXCEPT ![h] = NoLoc]
    /\ UNCHANGED <<now, session, ret, upgraded>>

(***************************************************************************)
(* is_safe_url.  A text is kept as its letters in lower case and the set   *)
(* of positions written in upper case, so that str.lower() is a conversion *)
(* that two texts differing only in case map to one value.  A URL is its   *)
(* scheme and host texts; urlparse(url) raises ValueError on a malformed   *)
(* one (an unclosed '[').  What socket.getaddrinfo answers is an input:    *)
(* it raises socket.gaierror, or gives a list of (family, address).        *)
(* An answer is [raises, entries].                                         *)
(***************************************************************************)
Text(s, upper) == [s |-> s, upper |-> upper]

Lit(s) == Text(s, {})

\* str.lower()
lower(text) == [text EXCEPT !.upper = {}]

\* ipaddress: the properties of the addresses of the model
IpFlags ==
    [a \in {"1.1.1.1", "8.8.8.8", "2001:4860::8888"} |-> {}]
    @@ ("127.0.0.1" :> {"is_loopback", "is_private"})
    @@ ("::1" :> {"is_loopback", "is_private"})
    @@ ("10.0.0.1" :> {"is_private"})
    @@ ("169.254.169.254" :> {"is_link_local", "is_private"})
    @@ ("0.0.0.0" :> {"is_unspecified", "is_private"})
    @@ ("224.0.0.1" :> {"is_multicast"})
    @@ ("240.0.0.1" :> {"is_reserved", "is_private"})

\* ipaddress.ip_address(text) returns an address when text is a literal, and raises
\* ValueError otherwise
IsIpLiteral(text) == text.s \in DOMAIN IpFlags

\* a variant of the code: the test leaves out is_link_local and is_private
is_public_ip_loopback_only(ip) == "is_loopback" \notin IpFlags[ip]

is_public_ip(ip) ==
    IpFlags[ip] \cap {"is_loopback", "is_private", "is_link_local",
                      "is_unspecified", "is_multicast", "is_reserved"} = {}

\* urlparse(url): .scheme and .hostname are lower-cased, .hostname is None when empty
urlparse(url) ==
    [scheme |-> lower(url.scheme),
     hostname |-> IF url.host.s = "" THEN {} ELSE {lower(url.host)}]

\* the order of Python's strings on the addresses of the model
AddressOrder ==
    <<"1.1.1.1", "10.0.0.1", "127.0.0.1", "2001:4860::8888", "8.8.8.8", "::1">>

\* sorted(addrs)[0]
FirstSorted(addrs) ==
    LET i == CHOOSE i \in DOMAIN AddressOrder :
                /\ AddressOrder[i] \in addrs
                /\ \A j \in 1..(i - 1) : AddressOrder[j] \notin addrs
    IN  AddressOrder[i]

Denied(lookups) == [ok |-> FALSE, detail |-> "403", lookups |-> lookups]

Allowed(ip, lookups) == [ok |-> TRUE, detail |-> ip, lookups |-> lookups]

\* a variant of the code: the alias test reads the host as it was written
AliasTestCaseSensitive(written, hostname) ==
    written \in {Lit("localhost"), Lit("localhost.localdomain")}

\* hn = hostname.lower(); hn in ("localhost", "localhost.localdomain")
AliasTest(written, hostname) ==
    lower(hostname) \in {Lit("localhost"), Lit("localhost.localdomain")}

\* the addresses of the AF_INET and AF_INET6 entries of an answer
AddrsOf(entries) ==
    {entries[i].addr : i \in {j \in DOMAIN entries :
                                entries[j].family \in {"AF_INET", "AF_INET6"}}}

\* lookups counts the calls of socket.getaddrinfo
is_safe_url(url, answer) ==
    IF url.malformed THEN Denied(0)
    ELSE LET parsed == urlparse(url)
         IN  IF parsed.scheme \notin {Lit("http"), Lit("https")} THEN Denied(0)
             ELSE IF parsed.hostname = {} THEN Denied(0)
             ELSE LET hostname == CHOOSE t \in parsed.hostname : TRUE
                  IN  IF AliasTest(url.host, hostname) THEN Denied(0)
                      ELSE IF IsIpLiteral(hostname)
                      THEN IF ~is_public_ip(hostname.s) THEN Denied(0)
                           ELSE Allowed(hostname.s, 0)
                      ELSE IF answer.raises THEN Denied(1)
                      ELSE IF AddrsOf(answer.entries) = {} THEN Denied(1)
                      ELSE IF \E ip \in AddrsOf(answer.entries) : ~is_public_ip(ip)
                      THEN Denied(1)
                      ELSE Allowed(FirstSorted(AddrsOf(answer.entries)), 1)

(***************************************************************************)
(* POST /import_artwork.  What the network does is an input of the         *)
(* request: the answer of the resolver when is_safe_url classifies the     *)
(* requested URL (check), what happens when the HTTP client resolves the   *)
(* name again and connects (connect: the address it reaches; or it raises; *)
(* or the read times out after the request was sent), the status and the   *)
(* Location header of the response, the answer of the resolver to every    *)
(* later lookup (recheck), and the body.                                   *)
(*                                                                         *)
(* A body is what resp.json() makes of it: it raises (json "invalid"), or  *)
(* gives a dict, a list or a str; contains says whether 'shapes' in data;  *)
(* title and price are the values of these keys, {} when the key is        *)
(* absent, NoneValue for JSON null.  A str price is its characters, where  *)
(* "sup2" stands for the one character SUPERSCRIPT TWO.                    *)
(***************************************************************************)
NoneValue == [type |-> "NoneType"]

StrValue(chars) == [type |-> "str", chars |-> chars]

IntValue(n) == [type |-> "int", n |-> n]

DecimalDigits == <<"0", "1", "2", "3", "4", "5", "6", "7", "8", "9">>

DigitValue(c) == (CHOOSE i \in DOMAIN DecimalDigits : DecimalDigits[i] = c) - 1

IsDecimal(c) == \E i \in DOMAIN DecimalDigits : DecimalDigits[i] = c

RECURSIVE DigitsOf(_)
DigitsOf(n) ==
    IF n < 10 THEN <<DecimalDigits[n + 1]>>
    ELSE DigitsOf(n \div 10) \o <<DecimalDigits[(n % 10) + 1]>>

\* str(value)
str(value) ==
    CASE value.type = "str" -> value.chars
      [] value.type = "int" ->
            IF value.n < 0 THEN <<"-">> \o DigitsOf(-value.n) ELSE DigitsOf(value.n)
      [] value.type = "NoneType" -> <<"N", "o", "n", "e">>
      [] value.type = "bool" ->
            IF value.b THEN <<"T", "r", "u", "e">> ELSE <<"F", "a", "l", "s", "e">>

\* str.isdigit(): every character is a digit, SUPERSCRIPT TWO being one, and there
\* is at least one
isdigit(chars) ==
    /\ Len(chars) > 0
    /\ \A i \in DOMAIN chars : IsDecimal(chars[i]) \/ chars[i] = "sup2"

RECURSIVE DecimalOf(_)
DecimalOf(chars) ==
    IF Len(chars) = 0 THEN 0
    ELSE 10 * DecimalOf(SubSeq(chars, 1, Len(chars) - 1))
         + DigitValue(chars[Len(chars)])

\* int(value): {n}, or {} when it raises ValueError
int(value) ==
    CASE value.type = "int" -> {value.n}
      [] value.type = "str" ->
            IF Len(value.chars) > 0
               /\ \A i \in DOMAIN value.chars : IsDecimal(value.chars[i])
            THEN {DecimalOf(value.chars)}
            ELSE {}
      [] value.type = "NoneType" -> {}

\* dict.get(key, default)
get(entry, default) == IF entry = {} THEN default ELSE CHOOSE v \in entry : TRUE

\* int(price) if str(price).isdigit() else 100: {n}, or {} when int raises
ImportedPrice(price) ==
    IF isdigit(str(price)) THEN int(price) ELSE {ImportDefaultPrice}

\* json.dumps(data['shapes']) of a list of strings, as its characters, a name
\* counting for one
RECURSIVE DumpItems(_)
DumpItems(items) ==
    IF Len(items) = 0 THEN <<>>
    ELSE IF Len(items) = 1 THEN <<"\"", items[1], "\"">>
    ELSE <<"\"", items[1], "\"", ",", " ">> \o DumpItems(Tail(items))

json_dumps(items) == <<"[">> \o DumpItems(items) \o <<"]">>

\* a variant of the code: the test leaves out 'shapes' in data
HasShapesIfDict(body) == body.json = "dict"

\* isinstance(data, dict) and 'shapes' in data
HasShapes(body) == body.json = "dict" /\ body.contains

\* a variant of the code: the GET is sent without the test of the URL
RequestAllowedUnchecked(url, check) == TRUE

\* ok, _ = is_safe_url(artwork_url)
RequestAllowed(url, check) == is_safe_url(url, check).ok

\* a variant of the code: only 302 is taken for a redirect
IsRedirectFound(status) == status = 302

\* 300 <= resp.status_code < 400
IsRedirect(status) == 300 <= status /\ status < 400

\* urljoin(artwork_url, loc): an absolute Location replaces the URL, a relative one
\* keeps its scheme and host
urljoin(url, location) == IF location.absolute THEN location.url ELSE url

\* resp.url when no redirect is followed: the URL as the client prepared it
ResponseUrl(url) ==
    [scheme |-> lower(url.scheme), host |-> lower(url.host), malformed |-> FALSE]

\* the address requests.get connects to: the literal, or the first address the
\* resolver gives the client at that moment
ConnectsTo(url, connect) ==
    IF IsIpLiteral(url.host) THEN {url.host.s}
    ELSE IF connect.answer.raises THEN {}
    ELSE IF Len(connect.answer.entries) = 0 THEN {}
    ELSE {connect.answer.entries[1].addr}

\* what the template is rendered with, and the call of create_artwork_record if one
\* is made; gets counts the HTTP requests sent and sent_to holds their destination
ImportResult(error, status, preview, gets, sent_to, create) ==
    [op |-> "import", error |-> error, status |-> status, preview |-> preview,
     shown |-> 0, gets |-> gets, sent_to |-> sent_to, create |-> create,
     created |-> 0]

\* len(resp.text): the whitespace before the JSON text, and the JSON text
TextLen(body) == body.lead + body.chars

\* resp.text[:10000], as its length
PreviewOf(body) == Min(TextLen(body), PreviewCap)

\* a variant of the code: the URL of the response is not classified again
FinalUrlAllowedUnchecked(url, recheck) == TRUE

\* ok_final, _ = is_safe_url(resp.url)
FinalUrlAllowed(url, recheck) == is_safe_url(ResponseUrl(url), recheck).ok

\* the try block around resp.json() and create_artwork_record, up to the INSERT
\* resp.json() reads the whole of resp.text, whatever the preview keeps of it
Parsed(req, sent_to) ==
    LET body == req.body
    IN  IF body.json = "invalid"
        THEN ImportResult("not json", 0, TRUE, 1, sent_to, {})
        ELSE IF ~HasShapes(body)
        THEN ImportResult("bad json format", 0, TRUE, 1, sent_to, {})
        ELSE LET title == get(body.title, StrValue(<<"d", "e", "f">>))
                 price == ImportedPrice(get(body.price, IntValue(ImportDefaultPrice)))
             IN  IF price = {}
                 THEN ImportResult("not json", 0, TRUE, 1, sent_to, {})
                 ELSE ImportResult("", 0, TRUE, 1, sent_to,
                         {[title |-> IF title = NoneValue THEN NULL ELSE {title},
                           data |-> json_dumps(body.shapes),
                           price |-> CHOOSE n \in price : TRUE,
                           is_private |-> 0,
                           signature |-> "imported"]})

ParseBody(req, sent_to) ==
    [Parsed(req, sent_to) EXCEPT !.shown = PreviewOf(req.body)]

\* the body of the route from is_safe_url(artwork_url) to the INSERT
ImportPipeline(req) ==
    IF ~RequestAllowed(req.url, req.check)
    THEN ImportResult("unsafe url", 0, FALSE, 0, {}, {})
    ELSE LET sent_to == ConnectsTo(req.url, req.connect)
         IN  IF sent_to = {}
             THEN ImportResult("request error", 0, FALSE, 1, {}, {})
             ELSE IF req.connect.timeout
             THEN ImportResult("request error", 0, FALSE, 1, sent_to, {})
             ELSE IF IsRedirect(req.status)
             THEN IF req.location = {}
                  THEN ImportResult("bad redirect", 0, FALSE, 1, sent_to, {})
                  ELSE IF ~is_safe_url(urljoin(req.url, get(req.location, {})),
                                       req.recheck).ok
                  THEN ImportResult("unsafe redirect", 0, FALSE, 1, sent_to, {})
                  ELSE ImportResult("redirects forbidden", 0, FALSE, 1, sent_to, {})
             ELSE IF req.status # 200
             THEN ImportResult("load error", req.status, FALSE, 1, sent_to, {})
             ELSE IF ~FinalUrlAllowed(req.url, req.recheck)
             THEN ImportResult("unsafe response url", 0, FALSE, 1, sent_to, {})
             ELSE ParseBody(req, sent_to)

\* the INSERT of a NULL title violates NOT NULL: sqlite3.IntegrityError, which the
\* except clause around resp.json() catches
ImportArtwork(h, req) ==
    /\ LoggedIn(h)
    /\ LET o == ImportPipeline(req)
       IN  IF o.create = {}
           THEN /\ ret' = [ret EXCEPT ![h] = o]
                /\ UNCHANGED <<users, artworks, transactions, artwork_settings, seq>>
           ELSE LET c == CHOOSE c \in o.create : TRUE
                IN  IF c.title = NULL
                    THEN /\ ret' = [ret EXCEPT ![h] =
                                      [o EXCEPT !.error = "not json", !.create = {}]]
                         /\ UNCHANGED <<users, artworks, transactions,
                                        artwork_settings, seq>>
                    ELSE /\ writer = 0
                         /\ seq.artworks < MaxArtworks
                         /\ Publish(create_artwork_record(
                                       Committed, session[h].user_id, c.title, c.data,
                                       c.price, c.is_private, c.signature, {}))
                         /\ ret' = [ret EXCEPT ![h] =
                                      [o EXCEPT !.created = seq.artworks + 1]]
    /\ pc' = [pc EXCEPT ![h] = "done"]
    /\ UNCHANGED <<now, session, loc, writer, pending, upgraded>>

(***************************************************************************)
(* The import requests of the model.                                       *)
(***************************************************************************)
Url(scheme, host) == [scheme |-> Lit(scheme), host |-> Lit(host), malformed |-> FALSE]

Answer(addr) ==
    [raises |-> FALSE, entries |-> <<[family |-> "AF_INET", addr |-> addr]>>]

PublicAnswer == Answer("8.8.8.8")

PrivateAnswer == Answer("10.0.0.1")

RaisingAnswer == [raises |-> TRUE, entries |-> <<>>]

\* a body of 40 characters of JSON text with no whitespace before it
Body(json, contains, shapes, title, price) ==
    [json |-> json, contains |-> contains, shapes |-> shapes, title |-> title,
     price |-> price, lead |-> 0, chars |-> 40]

\* the same body after so many characters of whitespace
Led(body, lead) == [body EXCEPT !.lead = lead]

ShapesBody(title, price) == Body("dict", TRUE, <<"circle", "square">>, title, price)

GoodBody == ShapesBody({StrValue(<<"T">>)}, {StrValue(<<"5", "0", "0">>)})

Bodies ==
    {Body("invalid", FALSE, <<>>, {}, {}),
     Body("list", TRUE, <<>>, {}, {}),
     Body("dict", FALSE, <<>>, {}, {}),
     GoodBody,
     ShapesBody({}, {}),
     ShapesBody({}, {StrValue(<<"-", "5">>)}),
     ShapesBody({}, {StrValue(<<"sup2">>)}),
     ShapesBody({}, {IntValue(7)}),
     ShapesBody({}, {NoneValue}),
     ShapesBody({NoneValue}, {StrValue(<<"5", "0", "0">>)}),
     Led(GoodBody, PreviewCap - 40), Led(GoodBody, PreviewCap),
     Led(Body("invalid", FALSE, <<>>, {}, {}), PreviewCap)}

Locations ==
    {{},
     {[absolute |-> TRUE, url |-> Url("http", "8.8.8.8")]},
     {[absolute |-> TRUE, url |-> Url("http", "169.254.169.254")]}}

ImportRequests ==
    [url : {Url("http", "example.com"), Url("http", "10.0.0.1")},
     check : {PublicAnswer, PrivateAnswer},
     connect : [answer : {PublicAnswer, PrivateAnswer}, timeout : {FALSE}]
               \cup {[answer |-> RaisingAnswer, timeout |-> FALSE],
                     [answer |-> PublicAnswer, timeout |-> TRUE]},
     status : {200, 301, 302, 404},
     location : Locations,
     recheck : {PublicAnswer, PrivateAnswer},
     body : Bodies]

GoodRequest ==
    [url |-> Url("http", "example.com"), check |-> PublicAnswer,
     connect |-> [answer |-> PublicAnswer, timeout |-> FALSE],
     status |-> 200, location |-> {}, recheck |-> PublicAnswer, body |-> GoodBody]

\* the two requests the marketplace is explored with: one is denied, one imports
MarketRequests == {GoodRequest, [GoodRequest EXCEPT !.check = PrivateAnswer]}

(***************************************************************************)
(* GET /cleanup: cleanup_expired_records, one transaction.                 *)
(***************************************************************************)
Keep(table, gone(_, _)) ==
    [x \in {y \in DOMAIN table : ~gone(y, table[y])} |-> table[x]]

cleanup_expired_records(T) ==
    LET old(id, row) == Expired(row)
        oldUser(id, row) == Expired(row) /\ row.username # "admin"
        A == Keep(T.artworks, old)
        dangling(id, row) == Expired(row) \/ row.artwork_id \notin DOMAIN A
    IN  [T EXCEPT !.artworks = A,
                  !.transactions = Keep(T.transactions, old),
                  !.artwork_settings = Keep(T.artwork_settings, dangling),
                  !.users = Keep(T.users, oldUser)]

Cleanup ==
    /\ writer = 0
    /\ Publish(cleanup_expired_records(Committed))
    /\ UNCHANGED <<now, session, pc, loc, ret, writer, pending,
                   upgraded>>

Tick ==
    /\ now + TickMinutes <= MaxTicks * TickMinutes
    /\ now' = now + TickMinutes
    /\ UNCHANGED <<users, artworks, transactions, artwork_settings, seq, session,
                   pc, loc, ret, writer, pending,
                   upgraded>>

Next ==
    \/ \E h \in Clients :
        \/ \E a \in 1..MaxArtworks : BuyBegin(h, a)
        \/ BuySelectArtwork(h)
        \/ BuySelectBalance(h)
        \/ BuyUpdateBuyer(h)
        \/ BuyUpdateSeller(h)
        \/ BuyUpdateOwner(h)
        \/ BuyInsertTransaction(h)
        \/ BuyCommit(h)
        \/ BuyRaise(h)
        \/ \E n \in Names, p \in Passwords : Login(h, n, p)
        \/ \E n \in Names, p \in NewPasswords : RegisterSelect(h, n, p)
        \/ RegisterInsert(h)
        \/ Respond(h)
        \/ \E price \in Prices, private \in PrivateFlags, d \in DescriptionLens :
              CreateArtwork(h, price, private, d)
        \/ \E a \in 1..MaxArtworks, price \in Prices, private \in PrivateFlags :
              EditArtwork(h, a, price, private)
        \/ EditUpdate(h)
        \/ \E a \in 1..MaxArtworks : DeleteArtwork(h, a)
        \/ \E a \in 1..MaxArtworks, c \in ColorsLens, an \in {TRUE}, pub \in {TRUE} :
              /\ seq.artwork_settings + Cardinality(InFlight("save")) < MaxSettings
              /\ SaveSettings(h, a, c, an, pub)
        \/ SaveDelete(h)
        \/ SaveInsert(h)
        \/ \E req \in MarketRequests : ImportArtwork(h, req)
    \/ Cleanup
    \/ Tick

Spec == Init /\ [][Next]_vars

(***************************************************************************)
(* is_safe_url on its own: the URL and the answer of the resolver are      *)
(* drawn at the start, and the one step classifies the URL.                *)
(***************************************************************************)
UrlSchemes ==
    {Lit("http"), Text("http", {1, 2, 3, 4}), Lit("https"), Lit("ftp"), Lit("")}

UrlHosts ==
    {Lit(""), Lit("localhost"), Text("localhost", 1..9),
     Text("localhost.localdomain", {1, 6, 11}), Lit("localhost."),
     Lit("example.com"), Text("example.com", {1})}
    \cup {Lit(a) : a \in DOMAIN IpFlags}

Urls ==
    [scheme : UrlSchemes, host : UrlHosts, malformed : {FALSE}]
    \cup {[scheme |-> Lit("http"), host |-> Lit("[::1"), malformed |-> TRUE]}

DnsEntries ==
    [family : {"AF_INET"}, addr : {"8.8.8.8", "1.1.1.1", "127.0.0.1", "10.0.0.1"}]
    \cup [family : {"AF_INET6"}, addr : {"2001:4860::8888", "::1"}]

DnsAnswers ==
    {[raises |-> TRUE, entries |-> <<>>]}
    \cup {[raises |-> FALSE, entries |-> e] :
            e \in UNION {[1..n -> DnsEntries] : n \in 0..MaxAnswers}}

UrlInit ==
    /\ InitStore
    /\ \E url \in Urls, answer \in DnsAnswers :
          loc = [h \in Clients |->
                   IF h = 1
                   THEN [op |-> "is_safe_url", url |-> url, answer |-> answer]
                   ELSE NoLoc]

Classify(h) ==
    /\ pc[h] = "idle"
    /\ loc[h].op = "is_safe_url"
    /\ ret' = [ret EXCEPT ![h] =
                 [op |-> "is_safe_url",
                  result |-> is_safe_url(loc[h].url, loc[h].answer)]]
    /\ pc' = [pc EXCEPT ![h] = "done"]
    /\ UNCHANGED <<users, artworks, transactions, artwork_settings, seq, now,
                   session, loc, writer, pending, upgraded>>

UrlNext == \E h \in Clients : Classify(h)

UrlSpec == UrlInit /\ [][UrlNext]_vars

(***************************************************************************)
(* The import gateway on its own: eve has registered with the first client *)
(* and bob has logged in with the second; the import request of the first  *)
(* client is drawn at the start, and the one step of the route serves it.  *)
(***************************************************************************)
GatewayInit ==
    /\ users =
         (1 :> [username |-> "admin",
                password |-> generate_password_hash("operator secret"),
                balance |-> AdminBalance, created_at |-> NULL])
         @@ (2 :> UpgradedPassword(
                    [username |-> "bob", password |-> md5("pw1"),
                     balance |-> DefaultBalance, created_at |-> {0}], "pw1"))
         @@ InsertUser(<<>>, 3, "eve", "pw2")
    /\ artworks = <<>>
    /\ transactions = <<>>
    /\ artwork_settings = <<>>
    /\ seq = [users |-> 3, artworks |-> 0, transactions |-> 0, artwork_settings |-> 0]
    /\ now = 0
    /\ session = [h \in Clients |->
                    IF h = 1 THEN SessionOf("eve", 3) ELSE SessionOf("bob", 2)]
    /\ pc = [h \in Clients |-> "idle"]
    /\ \E req \in ImportRequests :
          loc = [h \in Clients |->
                   IF h = 1 THEN [op |-> "import", req |-> req] ELSE NoLoc]
    /\ ret = [h \in Clients |-> NoRet]
    /\ writer = 0
    /\ pending = NoPending
    /\ upgraded = {[user_id |-> 2, username |-> "bob", password |-> "pw1"]}

Serve(h) ==
    /\ loc[h].op = "import"
    /\ ImportArtwork(h, loc[h].req)

GatewayNext ==
    \E h \in Clients :
        \/ Serve(h)
        \/ Respond(h)

GatewaySpec == GatewayInit /\ [][GatewayNext]_vars

(***************************************************************************)
(* The steps of a purchase, as the properties below name them.             *)
(***************************************************************************)
BuyPcs == {"buy_select_artwork", "buy_select_balance"} \cup WritePcs

\* client h's purchase_artwork call takes a step
BuySteps(h) == pc[h] \in BuyPcs /\ pc'[h] # pc[h]

\* client h's purchase_artwork call returns
BuyReturns(h) == pc[h] \in BuyPcs /\ pc'[h] = "done"

\* client h's purchase_artwork call commits and returns (True, ...)
BuyCommits(h) == pc[h] = "buy_commit" /\ pc'[h] = "done" /\ ret'[h].ok

RECURSIVE SumOver(_, _)
SumOver(U, ids) ==
    IF ids = {} THEN 0
    ELSE LET u == CHOOSE x \in ids : TRUE
         IN  U[u].balance + SumOver(U, ids \ {u})

SumBalances(U) == SumOver(U, DOMAIN U)

NewTransactions == DOMAIN transactions' \ DOMAIN transactions

(***************************************************************************)
(* C1.  A purchase by a buyer who is not the owner and whose balance is at *)
(* least the price succeeds with exactly these effects: the buyer is       *)
(* debited by the price, the seller (the owner) is credited by the price,  *)
(* the buyer becomes the owner and exactly one transaction row {buyer,     *)
(* seller, artwork, amount = price} is appended; it returns (True, ...).   *)
(* The preconditions are taken where the call writes, so that the call is  *)
(* one that no other request has overtaken.                                *)
(***************************************************************************)
C1_PurchaseEffects ==
    [][\A h \in Clients :
        LET b == loc[h].buyer_id
            s == loc[h].seller_id
            a == loc[h].artwork_id
            p == loc[h].price
        IN  ( /\ BuyCommits(h)
              /\ a \in DOMAIN artworks
              /\ artworks[a].owner_id = s /\ artworks[a].price = p
              /\ b # s
              /\ b \in DOMAIN users /\ users[b].balance >= p )
            =>
            ( /\ b \in DOMAIN users'
              /\ users'[b].balance = users[b].balance - p
              /\ s \in DOMAIN users /\ s \in DOMAIN users'
              /\ users'[s].balance = users[s].balance + p
              /\ a \in DOMAIN artworks' /\ artworks'[a].owner_id = b
              /\ Cardinality(NewTransactions) = 1
              /\ \A t \in NewTransactions :
                    /\ transactions'[t].buyer_id = b
                    /\ transactions'[t].seller_id = s
                    /\ transactions'[t].artwork_id = a
                    /\ transactions'[t].amount = p
              /\ ret'[h] = [op |-> "buy", ok |-> TRUE, msg |-> "Purchase successful"] )
      ]_vars

(***************************************************************************)
(* C2.  The sum of all user balances is the same before and after every    *)
(* step of every purchase_artwork call, successful or failed.              *)
(***************************************************************************)
C2_BalanceSumPreserved ==
    [][\A h \in Clients :
        BuySteps(h) => SumBalances(users') = SumBalances(users)]_vars

(***************************************************************************)
(* C3.  In every reachable state every user's balance is non-negative.     *)
(***************************************************************************)
C3_BalancesNonNegative ==
    \A u \in DOMAIN users : users[u].balance >= 0

(***************************************************************************)
(* C4.  At most one purchase succeeds for one ownership state of an        *)
(* artwork: the sales of an artwork form a chain in which the seller of    *)
(* each sale is the buyer of the sale before it, so that no owner is paid  *)
(* twice for the artwork and no buyer pays for an artwork that another     *)
(* purchase, made from the same owner, took.                               *)
(***************************************************************************)
C4_SalesFormOwnershipChain ==
    \A t1, t2 \in DOMAIN transactions :
        ( /\ t1 < t2
          /\ transactions[t1].artwork_id = transactions[t2].artwork_id
          /\ ~ \E t \in DOMAIN transactions :
                  /\ t1 < t /\ t < t2
                  /\ transactions[t].artwork_id = transactions[t1].artwork_id )
        => transactions[t2].seller_id = transactions[t1].buyer_id

(***************************************************************************)
(* C5.  purchase_artwork is all-or-nothing: of the steps of a call, only   *)
(* the commit changes the store the other connections read, and it changes *)
(* it by all four statements at once (the row's created_at being the time  *)
(* of the INSERT); a call that raises changes nothing.                     *)
(***************************************************************************)
FourStatements(T, l, created_at) ==
    InsertTransaction(
        UpdateOwner(
            UpdateBalance(UpdateBalance(T, l.buyer_id, -l.price),
                          l.seller_id, l.price),
            l.artwork_id, l.buyer_id),
        l.buyer_id, l.seller_id, l.artwork_id, l.price, created_at)

C5_PurchaseAllOrNothing ==
    [][\A h \in Clients :
        BuySteps(h) =>
            IF BuyCommits(h)
            THEN \E t \in 0..now : Committed' = FourStatements(Committed, loc[h], {t})
            ELSE Committed' = Committed]_vars

\* a purchase has committed, and a call that raised after its four statements
\* has left nothing behind
C5_Witness ==
    \E h \in Clients :
        /\ pc[h] = "done"
        /\ ret[h].op = "buy"
        /\ ret[h].ok
        /\ \E t \in DOMAIN transactions :
              /\ transactions[t].buyer_id = loc[h].buyer_id
              /\ transactions[t].artwork_id = loc[h].artwork_id
              /\ loc[h].artwork_id \in DOMAIN artworks
              /\ artworks[loc[h].artwork_id].owner_id = loc[h].buyer_id

(***************************************************************************)
(* C6 as stated.  A purchase_artwork call that returns from a store in     *)
(* which the buyer's balance is strictly less than the artwork's price     *)
(* returns the insufficient-funds reason and changes nothing.              *)
(***************************************************************************)
InsufficientRet == [op |-> "buy", ok |-> FALSE, msg |-> "Insufficient balance"]

C6_InsufficientFundsWhateverTheOwner ==
    [][\A h \in Clients :
        ( /\ BuyReturns(h)
          /\ pc[h] \in {"buy_select_artwork", "buy_select_balance"}
          /\ loc[h].artwork_id \in DOMAIN artworks
          /\ loc[h].buyer_id \in DOMAIN users
          /\ users[loc[h].buyer_id].balance < artworks[loc[h].artwork_id].price )
        => (ret'[h] = InsufficientRet /\ Committed' = Committed)]_vars

(***************************************************************************)
(* C6 as amended.  A purchase_artwork call by a buyer who is not the owner *)
(* it read, and whose balance, when the call reads it, is strictly less    *)
(* than the price it read, returns the insufficient-funds reason, and no   *)
(* step of the call up to that return changes any table.                   *)
(***************************************************************************)
C6_InsufficientFunds ==
    [][\A h \in Clients :
        /\ ( /\ BuySteps(h)
             /\ pc[h] = "buy_select_balance"
             /\ loc[h].buyer_id \in DOMAIN users
             /\ users[loc[h].buyer_id].balance < loc[h].price )
           => ( /\ pc'[h] = "done"
                /\ ret'[h] = InsufficientRet
                /\ Committed' = Committed )
        /\ ( /\ BuySteps(h)
             /\ pc[h] = "buy_select_artwork" )
           => Committed' = Committed]_vars

\* a call by a buyer whose row exists has returned the insufficient-funds reason
C6_Witness ==
    \E h \in Clients :
        /\ pc[h] = "done"
        /\ ret[h] = InsufficientRet
        /\ loc[h].buyer_id \in DOMAIN users
        /\ loc[h].seller_id # loc[h].buyer_id
        /\ users[loc[h].buyer_id].balance < loc[h].price

(***************************************************************************)
(* C7.  A purchase_artwork call whose buyer is the owner of the artwork    *)
(* returns the self-purchase reason, whatever the balance and the price,   *)
(* and changes no table.                                                   *)
(***************************************************************************)
SelfPurchaseRet ==
    [op |-> "buy", ok |-> FALSE, msg |-> "You cannot buy your own artwork"]

C7_SelfPurchase ==
    [][\A h \in Clients :
        ( /\ BuySteps(h)
          /\ pc[h] = "buy_select_artwork"
          /\ loc[h].artwork_id \in DOMAIN artworks
          /\ artworks[loc[h].artwork_id].owner_id = loc[h].buyer_id )
        => ( /\ pc'[h] = "done"
             /\ ret'[h] = SelfPurchaseRet
             /\ Committed' = Committed )]_vars

\* the owner has been refused, with a balance that would have bought the artwork
C7_Witness ==
    \E h \in Clients :
        /\ pc[h] = "done"
        /\ ret[h] = SelfPurchaseRet
        /\ loc[h].artwork_id \in DOMAIN artworks
        /\ artworks[loc[h].artwork_id].owner_id = loc[h].buyer_id
        /\ loc[h].buyer_id \in DOMAIN users
        /\ users[loc[h].buyer_id].balance >= artworks[loc[h].artwork_id].price

(***************************************************************************)
(* C8.  A missing record is reported with a not-found reason: an artwork   *)
(* id with no row yields "Artwork not found", and a buyer id with no user  *)
(* row yields a not-found reason too, not the insufficient-funds reason;   *)
(* in both cases no table changes and the call returns, it does not raise. *)
(***************************************************************************)
C8_NotFoundReasons ==
    [][\A h \in Clients :
        /\ ( /\ BuySteps(h)
             /\ pc[h] = "buy_select_artwork"
             /\ loc[h].artwork_id \notin DOMAIN artworks )
           => ( /\ pc'[h] = "done"
                /\ ret'[h] = [op |-> "buy", ok |-> FALSE, msg |-> "Artwork not found"]
                /\ Committed' = Committed )
        /\ ( /\ BuySteps(h)
             /\ pc[h] = "buy_select_balance"
             /\ loc[h].buyer_id \notin DOMAIN users )
           => ( /\ pc'[h] = "done"
                /\ ~ret'[h].ok
                /\ ret'[h].msg \notin {"Insufficient balance", "raised",
                                       "You cannot buy your own artwork"}
                /\ Committed' = Committed )]_vars

(***************************************************************************)
(* C9.  A transaction row is created once by each purchase that succeeds   *)
(* and by no other step, and no step but the expiry sweep changes or       *)
(* deletes a row there is.                                                 *)
(***************************************************************************)
C9_TransactionsAppendOnly ==
    [][ /\ \/ Cleanup
           \/ \A t \in DOMAIN transactions :
                 t \in DOMAIN transactions' /\ transactions'[t] = transactions[t]
        /\ IF \E h \in Clients : BuyCommits(h)
           THEN Cardinality(NewTransactions) = 1
           ELSE NewTransactions = {}
      ]_vars

\* a transaction row has outlived its artwork, which delete_artwork removed
\* (nothing expires before the clock has moved)
C9_Witness ==
    /\ now = 0
    /\ \E t \in DOMAIN transactions : transactions[t].artwork_id \notin DOMAIN artworks

(***************************************************************************)
(* C10 as stated.  A login with the password of a stored legacy digest     *)
(* succeeds and leaves a scheme-tagged hash of that password in the row;   *)
(* and every later login with that user name and password finds a          *)
(* scheme-tagged credential, succeeds and writes nothing.                  *)
(***************************************************************************)
LegacyLoginUpgrades(h, username, password) ==
    LET u == UserIdOf(username)
    IN  users[u].password = md5(password)
        => /\ ret'[h] = LoginRet(TRUE, u, username)
           /\ HasSchemeMarker(users'[u].password)
           /\ check_password_hash(users'[u].password, password)
           /\ users' = [users EXCEPT ![u].password = users'[u].password]

C10_EveryLaterLoginSucceeds ==
    [][\A h \in Clients, n \in Names, p \in Passwords :
        Login(h, n, p)
        => /\ user_exists(n) => LegacyLoginUpgrades(h, n, p)
           /\ (\E e \in upgraded : e.username = n /\ e.password = p)
              => /\ user_exists(n)
                 /\ HasSchemeMarker(users[UserIdOf(n)].password)
                 /\ ret'[h].ok
                 /\ users' = users]_vars

(***************************************************************************)
(* C10 as amended.  A login with the password of a stored legacy digest    *)
(* succeeds and leaves a scheme-tagged hash of that password in the row;   *)
(* and every later login with that user name and password made while that  *)
(* row still exists finds a scheme-tagged credential, succeeds as that     *)
(* user and writes nothing.                                                *)
(***************************************************************************)
C10_LegacyLoginUpgradesOnce ==
    [][\A h \in Clients, n \in Names, p \in Passwords :
        (Login(h, n, p) /\ user_exists(n))
        => /\ LegacyLoginUpgrades(h, n, p)
           /\ [user_id |-> UserIdOf(n), username |-> n, password |-> p] \in upgraded
              => /\ HasSchemeMarker(users[UserIdOf(n)].password)
                 /\ ret'[h] = LoginRet(TRUE, UserIdOf(n), n)
                 /\ users' = users]_vars

\* a client that the upgraded user's first login put in session has logged in
\* again as that user
C10_Witness ==
    \E h \in Clients : \E e \in upgraded :
        /\ pc[h] = "done"
        /\ ret[h] = LoginRet(TRUE, e.user_id, e.username)
        /\ session[h] = SessionOf(e.username, e.user_id)
        /\ e.user_id \in DOMAIN users
        /\ HasSchemeMarker(users[e.user_id].password)

(***************************************************************************)
(* The steps of authenticate_user and create_user.                         *)
(***************************************************************************)
LoginStep(h) == pc[h] = "idle" /\ pc'[h] = "done" /\ ret'[h].op = "login"

CreateUserReturns(h) ==
    pc[h] \in {"idle", "register_insert"} /\ pc'[h] = "done" /\ ret'[h].op = "register"

CreateUserStep(h) ==
    CreateUserReturns(h) \/ (pc[h] = "idle" /\ pc'[h] = "register_insert")

(***************************************************************************)
(* C11.  A stored credential changes only in an authenticate_user call     *)
(* whose password matches the stored legacy digest; authenticate_user for  *)
(* an unknown username, a wrong password or a current-scheme credential    *)
(* writes nothing; and no step of authenticate_user or create_user changes *)
(* or removes the balance of an existing user.                             *)
(***************************************************************************)
C11_CredentialWrittenOnlyByLegacyLogin ==
    [][ /\ \A u \in DOMAIN users :
             (u \in DOMAIN users' /\ users'[u].password # users[u].password)
             => \E h \in Clients, n \in Names, p \in Passwords :
                   /\ LoginStep(h) /\ Login(h, n, p)
                   /\ users[u].username = n
                   /\ users[u].password = md5(p)
                   /\ ret'[h] = LoginRet(TRUE, u, n)
        /\ \A h \in Clients :
             LoginStep(h)
             => /\ \A n \in Names, p \in Passwords :
                     ( /\ Login(h, n, p)
                       /\ \/ ~user_exists(n)
                          \/ users[UserIdOf(n)].password # md5(p) )
                     => Committed' = Committed
                /\ \A u \in DOMAIN users :
                     u \in DOMAIN users' /\ users'[u].balance = users[u].balance
        /\ \A h \in Clients :
             CreateUserStep(h)
             => \A u \in DOMAIN users : u \in DOMAIN users' /\ users'[u] = users[u]
      ]_vars

\* a login has failed while the legacy digest, which no login has upgraded yet, is
\* still the stored credential
C11_Witness ==
    \E h \in Clients : \E u \in DOMAIN users :
        /\ pc[h] = "done"
        /\ ret[h] = LoginRet(FALSE, 0, "")
        /\ ~HasSchemeMarker(users[u].password)
        /\ upgraded = {}

(***************************************************************************)
(* C12.  create_user returns (False, None) and changes nothing when the    *)
(* username is taken; otherwise it inserts one user with a current-scheme  *)
(* hash of the password and the default balance and returns (True, id).    *)
(* No two rows ever share a username, and every call, two concurrent calls *)
(* with one username included, returns one of these two results.           *)
(***************************************************************************)
NewUsers == DOMAIN users' \ DOMAIN users

C12_CreateUserCreatedOrExists ==
    [][ /\ \A u, v \in DOMAIN users' :
             users'[u].username = users'[v].username => u = v
        /\ \A h \in Clients :
             CreateUserReturns(h)
             => /\ ~ret'[h].raised
                /\ IF ret'[h].ok
                   THEN /\ NewUsers = {ret'[h].user_id}
                        /\ LET row == users'[ret'[h].user_id]
                           IN  /\ row.username = loc[h].username
                               /\ HasSchemeMarker(row.password)
                               /\ check_password_hash(row.password, loc[h].password)
                               /\ row.balance = DefaultBalance
                   ELSE Committed' = Committed
      ]_vars

(***************************************************************************)
(* The classification of a URL, as the properties below name it.           *)
(***************************************************************************)
Classified(h) == pc[h] = "done" /\ ret[h].op = "is_safe_url"

\* the answer holds at least one address, and every address of it is public: it is
\* none of loopback, private, link-local, unspecified, multicast, reserved
ResolvesPublic(answer) ==
    /\ ~answer.raises
    /\ \E i \in DOMAIN answer.entries : TRUE
    /\ \A i \in DOMAIN answer.entries : IpFlags[answer.entries[i].addr] = {}

HasHostname(url) == ~url.malformed /\ url.host.s # ""

IsAlias(url) == url.host.s \in {"localhost", "localhost.localdomain"}

IsHttp(url) == url.scheme.s \in {"http", "https"}

(***************************************************************************)
(* C13 as stated.  For every URL whose hostname is not an IP literal,      *)
(* is_safe_url allows it if and only if the resolver answers with a        *)
(* non-empty list of public addresses only.                                *)
(***************************************************************************)
C13_AllowedIffResolvesPublic ==
    \A h \in Clients :
        ( /\ Classified(h)
          /\ HasHostname(loc[h].url)
          /\ ~IsIpLiteral(loc[h].url.host) )
        => (ret[h].result.ok <=> ResolvesPublic(loc[h].answer))

(***************************************************************************)
(* C13 as amended.  For every http or https URL whose hostname is neither  *)
(* an IP literal nor a loopback alias, is_safe_url allows it if and only   *)
(* if the resolver answers with a non-empty list of public addresses only, *)
(* whatever the order of the answers.                                      *)
(***************************************************************************)
C13_HttpNameAllowedIffResolvesPublic ==
    \A h \in Clients :
        ( /\ Classified(h)
          /\ HasHostname(loc[h].url)
          /\ IsHttp(loc[h].url)
          /\ ~IsAlias(loc[h].url)
          /\ ~IsIpLiteral(loc[h].url.host) )
        => (ret[h].result.ok <=> ResolvesPublic(loc[h].answer))

\* a name that resolves to one public and one private address, the public one first,
\* has been denied
C13_Witness ==
    \E h \in Clients :
        /\ Classified(h)
        /\ loc[h].url = [scheme |-> Lit("https"), host |-> Lit("example.com"),
                         malformed |-> FALSE]
        /\ loc[h].answer.entries = <<[family |-> "AF_INET", addr |-> "8.8.8.8"],
                                     [family |-> "AF_INET", addr |-> "10.0.0.1"]>>
        /\ ~ret[h].result.ok

(***************************************************************************)
(* C14.  is_safe_url fails closed: it denies a URL that does not parse,    *)
(* whose scheme (as urlparse gives it) is neither http nor https, whose    *)
(* hostname is empty or is localhost or localhost.localdomain in any       *)
(* letter case, all four without a call of the resolver; and it denies a   *)
(* name for which the resolver raises or answers with no address.  Every   *)
(* call returns a verdict.                                                 *)
(***************************************************************************)
C14_FailsClosed ==
    \A h \in Clients :
        Classified(h)
        => LET url == loc[h].url
               answer == loc[h].answer
               verdict == ret[h].result
           IN  /\ verdict.ok \in BOOLEAN
               /\ ( \/ url.malformed
                    \/ ~IsHttp(url)
                    \/ url.host.s = ""
                    \/ IsAlias(url) )
                  => (~verdict.ok /\ verdict.lookups = 0)
               /\ ( /\ ~url.malformed
                    /\ ~IsIpLiteral(url.host)
                    /\ answer.raises \/ AddrsOf(answer.entries) = {} )
                  => ~verdict.ok

\* LOCALHOST, written in capitals, has been denied although the resolver would have
\* answered with a public address
C14_Witness ==
    \E h \in Clients :
        /\ Classified(h)
        /\ loc[h].url = [scheme |-> Lit("http"), host |-> Text("localhost", 1..9),
                         malformed |-> FALSE]
        /\ ResolvesPublic(loc[h].answer)
        /\ ret[h].result = Denied(0)

(***************************************************************************)
(* The artwork and settings routes on their own: bob is the only user, and *)
(* logs in with either client or with both.                                *)
(***************************************************************************)
StudioInit ==
    /\ InitStore
    /\ loc = [h \in Clients |-> NoLoc]

StudioNext ==
    \E h \in Clients :
        \/ \E n \in {"bob"}, p \in Passwords : Login(h, n, p)
        \/ Respond(h)
        \/ \E price \in {500}, private \in PrivateFlags, d \in DescriptionLens :
              CreateArtwork(h, price, private, d)
        \/ \E a \in 1..MaxArtworks, c \in ColorsLens, an \in {TRUE}, pub \in {TRUE} :
              /\ seq.artwork_settings + Cardinality(InFlight("save")) < MaxSaves
              /\ SaveSettings(h, a, c, an, pub)
        \/ SaveDelete(h)
        \/ SaveInsert(h)
        \/ \E a \in 1..MaxArtworks : DeleteArtwork(h, a)

StudioSpec == StudioInit /\ [][StudioNext]_vars

(***************************************************************************)
(* The step of import_artwork, as the properties below name it, and what   *)
(* its request lets the network do.                                        *)
(***************************************************************************)
ImportStep(h) ==
    pc[h] = "idle" /\ loc[h].op = "import" /\ pc'[h] = "done" /\ ret'[h].op = "import"

\* the requested URL is classified Allowed
UrlAllowed(req) == is_safe_url(req.url, req.check).ok

\* the GET is sent and a response comes back
GetReturns(req) ==
    /\ UrlAllowed(req)
    /\ ~req.connect.timeout
    /\ IsIpLiteral(req.url.host) \/ ~req.connect.answer.raises

\* the URL of the response is classified Allowed
FinalAllowed(req) == is_safe_url(ResponseUrl(req.url), req.recheck).ok

BlockedErrors == {"bad redirect", "unsafe redirect", "redirects forbidden"}

NewArtworks == DOMAIN artworks' \ DOMAIN artworks

NothingImported(h) ==
    /\ ~ret'[h].preview
    /\ ret'[h].created = 0
    /\ Committed' = Committed

C16_GetNeverSentToDisallowedAddress ==
    [][\A h \in Clients :
        ImportStep(h) => \A a \in ret'[h].sent_to : IpFlags[a] = {}]_vars

(***************************************************************************)
(* C17 as stated.  An import gives a preview or creates an artwork only if *)
(* the requested URL was allowed, the status is 200 and the URL of the     *)
(* response was allowed again; a status other than 200 gives the upstream  *)
(* error and an unsafe URL of the response gives a blocked error, both     *)
(* with no preview and no artwork.                                         *)
(***************************************************************************)
TrustedOnlyAfterAllChecks(h) ==
    /\ (ret'[h].preview \/ ret'[h].created # 0 \/ Committed' # Committed)
       => ( /\ UrlAllowed(loc[h].req)
            /\ loc[h].req.status = 200
            /\ FinalAllowed(loc[h].req) )
    /\ (GetReturns(loc[h].req) /\ loc[h].req.status = 200 /\ ~FinalAllowed(loc[h].req))
       => (ret'[h].error = "unsafe response url" /\ NothingImported(h))

DigitString(chars) ==
    Len(chars) > 0 /\ \A i \in DOMAIN chars : IsDecimal(chars[i])

PayloadPrice(body) ==
    IF body.price # {} /\ DigitString(str(get(body.price, NoneValue)))
    THEN DecimalOf(str(get(body.price, NoneValue)))
    ELSE ImportDefaultPrice

ShapesResponse(req) ==
    /\ GetReturns(req)
    /\ req.status = 200
    /\ FinalAllowed(req)
    /\ req.body.json = "dict"
    /\ req.body.contains

C18_ShapesResponseMakesOneArtwork ==
    [][\A h \in Clients :
        (ImportStep(h) /\ ShapesResponse(loc[h].req))
        => \E id \in NewArtworks :
              /\ NewArtworks = {id}
              /\ ret'[h].created = id
              /\ ret'[h].error = ""
              /\ artworks'[id].owner_id = session[h].user_id
              /\ artworks'[id].data = json_dumps(loc[h].req.body.shapes)
              /\ artworks'[id].is_private = 0
              /\ artworks'[id].signature = "imported"
              /\ artworks'[id].price = PayloadPrice(loc[h].req.body)
              /\ artworks'[id].price >= 0]_vars

(***************************************************************************)
(* C19.  A bad response never makes an artwork and always ends in an error *)
(* shown to the user: a body that is not JSON, a JSON value that is not an *)
(* object, an object without the key shapes, and an exception or a timeout *)
(* of the GET.                                                             *)
(***************************************************************************)
BodyRead(req) == GetReturns(req) /\ req.status = 200 /\ FinalAllowed(req)

GetRaises(req) ==
    /\ UrlAllowed(req)
    /\ \/ req.connect.timeout
       \/ ~IsIpLiteral(req.url.host) /\ req.connect.answer.raises

C19_BadResponseMakesNoArtwork ==
    [][\A h \in Clients :
        ImportStep(h)
        => LET req == loc[h].req
               NoArtwork == ret'[h].created = 0 /\ Committed' = Committed
           IN  /\ (BodyRead(req) /\ req.body.json = "invalid")
                  => (ret'[h].error = "not json" /\ NoArtwork)
               /\ (BodyRead(req) /\ req.body.json \notin {"invalid", "dict"})
                  => (ret'[h].error = "bad json format" /\ NoArtwork)
               /\ (BodyRead(req) /\ req.body.json = "dict" /\ ~req.body.contains)
                  => (ret'[h].error = "bad json format" /\ NoArtwork)
               /\ GetRaises(req)
                  => (ret'[h].error = "request error" /\ NoArtwork)]_vars

\* a 200 response from an allowed URL whose body is not JSON has been answered with
\* its preview and the error, and the GET of another request has timed out
C19_Witness ==
    \E h \in Clients :
        /\ pc[h] = "done"
        /\ ret[h].op = "import"
        /\ BodyRead(loc[h].req)
        /\ loc[h].req.body.json = "invalid"
        /\ ret[h].error = "not json"
        /\ ret[h].preview
        /\ artworks = <<>>

(***************************************************************************)
(* load_artwork_settings.  A string is the sequence of its characters; the *)
(* characters of the model are a letter, a digit, the space, the quote and *)
(* the brackets.                                                           *)
(***************************************************************************)
ListValue(items) == [type |-> "list", items |-> items]

DictValue(description) == [type |-> "dict", description |-> description]

\* a JSON number keeps its digits
NumberValue(digits) == [type |-> "number", digits |-> digits]

\* str.strip() as the JSON decoder skips whitespace on both sides
Strip(chars) ==
    LET inked == {i \in DOMAIN chars : chars[i] # " "}
    IN  IF inked = {} THEN <<>>
        ELSE SubSeq(chars,
                    CHOOSE i \in inked : \A j \in inked : i <= j,
                    CHOOSE i \in inked : \A j \in inked : j <= i)

IsJsonNumber(chars) ==
    /\ Len(chars) > 0
    /\ \A i \in DOMAIN chars : IsDecimal(chars[i])
    /\ chars[1] # "0" \/ Len(chars) = 1

IsJsonString(chars) ==
    /\ Len(chars) >= 2
    /\ chars[1] = "\"" /\ chars[Len(chars)] = "\""
    /\ \A i \in 2..(Len(chars) - 1) : chars[i] # "\""

\* json.loads(s): {obj}, or {} when it raises
RECURSIVE json_loads(_)
json_loads(chars) ==
    LET text == Strip(chars)
    IN  IF IsJsonNumber(text) THEN {NumberValue(text)}
        ELSE IF IsJsonString(text) THEN {StrValue(SubSeq(text, 2, Len(text) - 1))}
        ELSE IF Len(text) >= 2 /\ text[1] = "[" /\ text[Len(text)] = "]"
        THEN LET inner == SubSeq(text, 2, Len(text) - 1)
             IN  IF Strip(inner) = <<>> THEN {ListValue(<<>>)}
                 ELSE {ListValue(<<obj>>) : obj \in json_loads(inner)}
        ELSE {}

\* not settings_data
BoolValue(b) == [type |-> "bool", b |-> b]

\* the dict with no key
EmptyDict == [type |-> "dict"]

IsFalsy(value) ==
    \/ value.type = "NoneType"
    \/ value.type = "str" /\ value.chars = <<>>
    \/ value.type = "list" /\ value.items = <<>>
    \/ value = EmptyDict
    \/ value.type = "int" /\ value.n = 0
    \/ value.type = "bool" /\ ~value.b

\* a variant of the code: the description is not cut
DescriptionUncut(chars) == chars

\* str(settings_data)[:MAX_DESCRIPTION_LEN]
DescriptionOf(chars) == SubSeq(chars, 1, Min(Len(chars), MAX_DESCRIPTION_LEN))

\* the value returned, raises telling an exception that leaves the function
load_artwork_settings(settings_data) ==
    IF IsFalsy(settings_data)
    THEN [raises |-> FALSE, value |-> NoneValue]
    ELSE IF settings_data.type \in {"dict", "list"}
    THEN [raises |-> FALSE, value |-> settings_data]
    ELSE LET obj == IF settings_data.type = "str"
                    THEN json_loads(settings_data.chars)
                    ELSE {}    \* json.loads raises TypeError, which is caught
         IN  IF obj # {}
             THEN [raises |-> FALSE, value |-> CHOOSE v \in obj : TRUE]
             ELSE [raises |-> FALSE,
                   value |-> DictValue(DescriptionOf(str(settings_data)))]

(***************************************************************************)
(* load_artwork_settings on its own: the value it is given is drawn at the *)
(* start, and its one step returns.                                        *)
(***************************************************************************)
Repeat(c, n) == [i \in 1..n |-> c]

SettingsLengths == 0..3 \cup ((MAX_DESCRIPTION_LEN - 1)..(MAX_DESCRIPTION_LEN + MaxPad))

SettingsWraps ==
    {<<<<>>, <<>>>>, <<<<"\"">>, <<"\"">>>>, <<<<"[">>, <<"]">>>>,
     <<<<"\"">>, <<>>>>, <<<<"[">>, <<>>>>}

SettingsStrings ==
    {w[1] \o Repeat(c, n) \o w[2] :
        w \in SettingsWraps, c \in {"x", "5", " "}, n \in SettingsLengths}

SettingsInputs ==
    {NoneValue, ListValue(<<>>), ListValue(<<StrValue(<<"x">>)>>),
     DictValue(<<"x">>), EmptyDict, IntValue(0), IntValue(5),
     BoolValue(FALSE), BoolValue(TRUE)}
    \cup {StrValue(chars) : chars \in SettingsStrings}

SettingsInit ==
    /\ InitStore
    /\ \E d \in SettingsInputs :
          loc = [h \in Clients |->
                   IF h = 1 THEN [op |-> "load", settings_data |-> d] ELSE NoLoc]

LoadSettings(h) ==
    /\ pc[h] = "idle"
    /\ loc[h].op = "load"
    /\ LET r == load_artwork_settings(loc[h].settings_data)
       IN  ret' = [ret EXCEPT ![h] =
                     [op |-> "load", raises |-> r.raises, value |-> r.value]]
    /\ pc' = [pc EXCEPT ![h] = "done"]
    /\ UNCHANGED <<users, artworks, transactions, artwork_settings, seq, now,
                   session, loc, writer, pending, upgraded>>

SettingsNext ==
    \E h \in Clients :
        \/ LoadSettings(h)
        \/ Respond(h)

SettingsSpec == SettingsInit /\ [][SettingsNext]_vars

(***************************************************************************)
(* C20.  load_artwork_settings never raises, and a string that is not      *)
(* empty and that json.loads refuses comes back as the dictionary whose    *)
(* description is the string itself, or its first 2000 characters when it  *)
(* is longer.                                                              *)
(***************************************************************************)
Loaded(h) == pc[h] = "done" /\ ret[h].op = "load"

NotJson(value) ==
    /\ value.type = "str"
    /\ value.chars # <<>>
    /\ json_loads(value.chars) = {}

C20_NonJsonStringIsWrapped ==
    \A h \in Clients :
        Loaded(h)
        => /\ ~ret[h].raises
           /\ NotJson(loc[h].settings_data)
              => LET chars == loc[h].settings_data.chars
                 IN  /\ ret[h].value.type = "dict"
                     /\ Len(ret[h].value.description) <= 2000
                     /\ Len(ret[h].value.description) = Min(Len(chars), 2000)
                     /\ \A i \in DOMAIN ret[h].value.description :
                           ret[h].value.description[i] = chars[i]

\* a string of 2001 letters has come back as its first 2000
C20_Witness ==
    \E h \in Clients :
        /\ Loaded(h)
        /\ loc[h].settings_data = StrValue(Repeat("x", 2001))
        /\ ret[h].value = DictValue(Repeat("x", 2000))

(***************************************************************************)
(* C21.  load_artwork_settings gives back what it is given when that is an *)
(* object, an array, a number or a boolean rather than a string.           *)
(***************************************************************************)
C21_StructuredInputPassesThrough ==
    \A h \in Clients :
        (Loaded(h) /\ loc[h].settings_data.type \in {"dict", "list", "int", "bool"})
        => ret[h].value = loc[h].settings_data

(***************************************************************************)
(* C22.  The settings_data of every artwork_settings row is at most 2000   *)
(* characters long, whatever the create form and the settings form sent.   *)
(***************************************************************************)
C22_StoredSettingsWithinCap ==
    \A s \in DOMAIN artwork_settings :
        artwork_settings[s].settings_data.len <= 2000

(***************************************************************************)
(* C23.  An artwork never has two artwork_settings rows: the row that      *)
(* create_artwork_record inserts is the only one until a save, a save      *)
(* leaves exactly its own row, however the saves of two requests for one   *)
(* artwork interleave, and between the DELETE and the INSERT of a save no  *)
(* reader finds the artwork without the row it had.                        *)
(***************************************************************************)
SettingsOf(table, artwork_id) ==
    {s \in DOMAIN table : table[s].artwork_id = artwork_id}

SaveCommits(h) == pc[h] = "save_insert" /\ pc'[h] = "idle"

C23_OneSettingsRowPerArtwork ==
    [][\A a \in 1..MaxArtworks :
        /\ Cardinality(SettingsOf(artwork_settings', a)) <= 1
        /\ SettingsOf(artwork_settings, a) # {} => SettingsOf(artwork_settings', a) # {}
        /\ \A h \in Clients :
              (SaveCommits(h) /\ loc[h].artwork_id = a)
              => \E s \in DOMAIN artwork_settings' :
                    /\ SettingsOf(artwork_settings', a) = {s}
                    /\ artwork_settings'[s].settings_data = loc[h].settings_data
                    /\ s \notin DOMAIN artwork_settings]_vars

\* a save has replaced the row of an artwork while the save of the other request
\* for the same artwork waits for the write lock
C23_Witness ==
    \E h \in Clients :
        /\ pc[h] = "save_delete"
        /\ loc[h].op = "save"
        /\ seq.artwork_settings >= 2
        /\ Cardinality(SettingsOf(artwork_settings, loc[h].artwork_id)) = 1

(***************************************************************************)
(* C24.  An import sends at most one GET, and sends it only for a URL that *)
(* is_safe_url allows: none for a denied URL, and one, never a second,     *)
(* when the GET times out, fails, is redirected or is answered with a      *)
(* status other than 200.                                                  *)
(***************************************************************************)
C24_AtMostOneGetAfterAllowed ==
    [][\A h \in Clients :
        ImportStep(h)
        => LET req == loc[h].req
           IN  /\ ret'[h].gets <= 1
               /\ ~UrlAllowed(req) => (ret'[h].gets = 0 /\ ret'[h].sent_to = {})
               /\ ret'[h].gets = 1 => UrlAllowed(req)
               /\ ( /\ UrlAllowed(req)
                    /\ \/ GetRaises(req)
                       \/ req.status # 200 )
                  => ret'[h].gets = 1]_vars

\* the import of a URL that names a private address has ended with no GET sent, and
\* that of an allowed URL answered 404 with one
C24_Witness ==
    \E h \in Clients :
        /\ pc[h] = "done"
        /\ ret[h].op = "import"
        /\ \/ /\ loc[h].req.url = Url("http", "10.0.0.1")
              /\ ret[h].error = "unsafe url"
              /\ ret[h].gets = 0
           \/ /\ UrlAllowed(loc[h].req)
              /\ loc[h].req.status = 404
              /\ ret[h].error = "load error"
              /\ ret[h].gets = 1

(***************************************************************************)
(* C25.  What an import shows and what it stores come from the first       *)
(* 10,000 characters of the body: the preview is no longer than that, and  *)
(* an artwork is made only of a body whose JSON text ends within them.     *)
(***************************************************************************)
C25_ContentFromFirstTenThousand ==
    [][\A h \in Clients :
        ImportStep(h)
        => /\ ret'[h].shown <= 10000
           /\ ret'[h].created # 0 => TextLen(loc[h].req.body) <= 10000]_vars

(***************************************************************************)
(* C26.  The title, data, price, visibility and signature of an artwork    *)
(* change only by the edit of the user who owns it when the UPDATE is      *)
(* applied: the edit of a former owner, whose ownership test a purchase    *)
(* has followed, leaves the artwork as the buyer has it.                   *)
(***************************************************************************)
EditApplies(h) == pc[h] = "edit_update" /\ pc'[h] = "idle"

Edited(a) ==
    \/ artworks'[a].title # artworks[a].title
    \/ artworks'[a].data # artworks[a].data
    \/ artworks'[a].price # artworks[a].price
    \/ artworks'[a].is_private # artworks[a].is_private
    \/ artworks'[a].signature # artworks[a].signature

C26_EditedOnlyForItsOwner ==
    [][\A a \in DOMAIN artworks \cap DOMAIN artworks' :
        Edited(a)
        => \E h \in Clients :
              /\ EditApplies(h)
              /\ loc[h].artwork_id = a
              /\ artworks[a].owner_id = session[h].user_id]_vars

(***************************************************************************)
(* C27.  No purchase charges for an artwork the buyer does not get: every  *)
(* transaction row names an artwork that was there before the commit that  *)
(* appended the row and that the row's buyer owns after it.                *)
(***************************************************************************)
C27_TransactionDeliversArtwork ==
    [][\A t \in NewTransactions :
        /\ transactions'[t].artwork_id \in DOMAIN artworks
        /\ transactions'[t].artwork_id \in DOMAIN artworks'
        /\ artworks'[transactions'[t].artwork_id].owner_id
              = transactions'[t].buyer_id]_vars

====
